---- MODULE Spec2Model ----
(***************************************************************************)
(* Model of hiokitool.py: the command batch (MessageQueue Q), the command  *)
(* descriptors (ControlQuery / Control / ControlSetting) and the line      *)
(* framed transport (TelnetClient) talking to an instrument over a byte    *)
(* stream.                                                                 *)
(*                                                                         *)
(* Text is modelled by TLA+ strings, received data by sequences of bytes   *)
(* (ASCII codes).  A byte in flight is a record [b, req]: b is the byte,   *)
(* req the number of the written line the instrument was answering when   *)
(* it emitted the byte (0 for unsolicited data); req is history only and   *)
(* never read by the client.                                               *)
(*                                                                         *)
(* Time is counted in ticks.  The client code runs in zero time; time      *)
(* passes only while the client is blocked in sock.recv() with no data.    *)
(***************************************************************************)
EXTENDS Integers, Sequences, FiniteSets, TLC

\* ---- sizes of the model (the program's values are scaled down) ----
BUFSIZE == 3             \* bytes asked from recv() at once (4096 in the code)
MAX_RESPONSE_SIZE == 3   \* response ceiling in bytes (1024 * 1024 in the code)
Timeout == 3             \* TelnetClient.timeout, in ticks
Margin == 1              \* tolerated overshoot of a response timeout, in ticks
MaxItems == 2            \* fragments staged in one batch
MaxWrites == 2           \* lines written on one connection
MaxStream == 5           \* bytes of a raw incoming stream (SpecRecv)

CR == 13
LF == 10

VARIABLES
    Q,          \* MessageQueue.queue: [wait, items]
    asked,      \* history: the wait argument of every put since the last clear
    sock,       \* TelnetClient.sock: "None", "unconnected" (socket object whose
                \*   connect failed) or "connected"
    wire,       \* lines written by the client, not yet read by the instrument
    nwritten,   \* number of lines written on this connection
    devOut,     \* bytes the instrument has queued and not yet emitted
    inbound,    \* bytes arrived in the socket's receive buffer
    pc,         \* "idle", or the call that is blocked in _receive_response
    command,    \* local 'command' of send_query / send_command
    sent,       \* history: texts handed to sock.send() in the current call
    msgBuf,     \* local 'msgBuf' of _receive_response
    elapsed,    \* time.time() - start, in ticks
    blocked,    \* ticks spent in the current sock.recv() call
    nrecv,      \* history: recv() calls that returned data in the current call
    seen,       \* history: the bytes recv() has returned in the current call
    ret,        \* outcome of the most recent call on the API
    surfaced,   \* history: ways in which a response timeout has surfaced
    api,        \* RestrictedAPI: [results, current_io, current_range]
    call,       \* the RestrictedAPI call in progress (its arguments and locals)
    out,        \* outcome of the most recent RestrictedAPI call
    script,     \* the script invocation of apply_config
    io_sequencer, \* the IOSequencer of the run
    run         \* apply_config from its [Run] section on

\* the state above the capability API: untouched by RestrictedAPI
runVars == <<script, io_sequencer, run>>

\* the state above the transport: untouched by MessageQueue and TelnetClient
hostVars == <<api, call, out, script, io_sequencer, run>>

vars == <<Q, asked, sock, wire, nwritten, devOut, inbound, pc, command,
          sent, msgBuf, elapsed, blocked, nrecv, seen, ret, surfaced,
          api, call, out, script, io_sequencer, run>>

\* ------------------------------------------------------------------
\* MessageQueue
\* ------------------------------------------------------------------
RECURSIVE Join(_, _)
Join(items, sep) ==
    IF Len(items) = 0 THEN ""
    ELSE IF Len(items) = 1 THEN items[1]
    ELSE items[1] \o sep \o Join(Tail(items), sep)

QueueInit == [wait |-> TRUE, items |-> <<>>]

QSize(q) == Len(q.items)

QSetWait(q, do_wait) == [q EXCEPT !.wait = do_wait]

\* put() that stores the wait argument of every fragment
QPutOverwrites(q, item, wait) ==
    [QSetWait(q, wait) EXCEPT !.items = Append(q.items, item)]

QPut(q, item, wait) ==
    LET q1 == IF wait \/ QSize(q) = 0 THEN QSetWait(q, wait) ELSE q
    IN  [q1 EXCEPT !.items = Append(q1.items, item)]

\* get() that joins without the separator
QGetNoSeparator(q) == Join(q.items, "")

QGet(q) == Join(q.items, ";")

QWait(q) == q.wait

\* clear() that forgets to raise the flag again
QClearKeepsWait(q) == [q EXCEPT !.items = <<>>]

QClear(q) == [q EXCEPT !.items = <<>>, !.wait = TRUE]

\* ------------------------------------------------------------------
\* Bytes and text
\* ------------------------------------------------------------------
\* bytes.strip(chars): drop the leading and the trailing bytes that are in chars
RECURSIVE LStrip(_, _)
LStrip(s, chars) ==
    IF Len(s) > 0 /\ s[1].b \in chars THEN LStrip(Tail(s), chars) ELSE s

RECURSIVE RStrip(_, _)
RStrip(s, chars) ==
    IF Len(s) > 0 /\ s[Len(s)].b \in chars
    THEN RStrip(SubSeq(s, 1, Len(s) - 1), chars) ELSE s

Strip(s, chars) == RStrip(LStrip(s, chars), chars)

\* b"\n" in rcv
Contains(s, c) == \E i \in 1..Len(s) : s[i].b = c

\* one byte of valid UTF-8 is an ASCII byte; 255 never occurs in valid UTF-8
ValidUtf8(s) == \A i \in 1..Len(s) : s[i].b < 128

Chr(b) ==
    CASE b = 10 -> "\n"
      [] b = 13 -> "\r"
      [] b = 44 -> ","
      [] b = 49 -> "1"
      [] b = 50 -> "2"
      [] b = 65 -> "A"
      [] OTHER -> "?"

\* bytes.decode('utf-8') of valid data
RECURSIVE Decode(_)
Decode(s) == IF Len(s) = 0 THEN "" ELSE Chr(s[1].b) \o Decode(Tail(s))

Reqs(s) == {s[i].req : i \in 1..Len(s)}

Min(a, b) == IF a < b THEN a ELSE b

\* ------------------------------------------------------------------
\* Values and outcomes of calls
\* ------------------------------------------------------------------
PyNone == [type |-> "NoneType", val |-> "None"]
PyTrue == [type |-> "bool", val |-> "True"]
PyStr(t) == [type |-> "str", val |-> t]

NoCall ==
    [op |-> "none", outcome |-> "returned", value |-> PyNone, err |-> "",
     cause |-> "", batch |-> QueueInit, sent |-> <<>>, nrecv |-> 0,
     took |-> 0, raw |-> <<>>, size |-> 0, text |-> <<>>]

Returned(op, v) == [NoCall EXCEPT !.op = op, !.value = v]

Raised(op, err, cause) ==
    [NoCall EXCEPT !.op = op, !.outcome = "raised", !.err = err,
                   !.cause = cause]

\* ------------------------------------------------------------------
\* RestrictedAPI.__init__, and the frame of a RestrictedAPI call.  An
\* optional value is a sequence: <<>> is None, <<v>> is the value v.
\* ------------------------------------------------------------------
ApiInit == [results |-> <<>>, current_io |-> <<>>, current_range |-> <<>>]

\* op: the method; value, name: its argument; i, results, warnings: the
\* locals of measure and the warnings it has printed; before: the batch, the
\* connection and the accumulator at entry; flushes, replies: history of the
\* batches written and of the replies read in the call; arg, opened: the
\* filename given to save_results and the files it has opened for writing
NoApiCall ==
    [op |-> "none", value |-> 0, name |-> "", i |-> 0, results |-> <<>>,
     warnings |-> 0, flushes |-> <<>>, replies |-> <<>>, arg |-> <<>>,
     opened |-> <<>>,
     before |-> [Q |-> QueueInit, sock |-> "None", nwritten |-> 0,
                 wire |-> <<>>, results |-> <<>>]]

NoOutcome ==
    [outcome |-> "none", err |-> "", result |-> <<>>, call |-> NoApiCall]

\* ------------------------------------------------------------------
\* apply_config before it reaches its [Script] section.  compiles, sequence,
\* main: what the script file holds; alarm, handler: the SIGALRM deadline;
\* err: the exception in flight; exit, result: how
\* execute_script_with_timeout ended; host: how apply_config ended;
\* looked, called, expired, failed, printed, kept: history; mode: the
\* [Script] mode; reach: the objects the script has got hold of; aborted:
\* <<n>> once the deadline has cut a flush short, n the lines written by then.
\* ------------------------------------------------------------------
NoScript ==
    [pc |-> "none", compiles |-> TRUE, sequence |-> FALSE, main |-> FALSE,
     alarm |-> FALSE, handler |-> "previous", err |-> "", exit |-> "none",
     result |-> "none", host |-> "running", looked |-> FALSE,
     called |-> <<>>, expired |-> FALSE, failed |-> FALSE, printed |-> {},
     kept |-> <<>>, mode |-> "restricted", reach |-> {}, aborted |-> <<>>]

\* ------------------------------------------------------------------
\* IOSequencer.__init__ without an [IO.Sequence] section; advances, last:
\* history of the calls of next() and the value of the most recent call;
\* yielded: <<>> without an enabled section, else <<values>>, the values the
\* section's range or list produced
\* ------------------------------------------------------------------
NoSequencer ==
    [enabled |-> FALSE, patterns |-> <<>>, current_index |-> 0,
     samples_per_step |-> 1, samples_at_current |-> 0, loop |-> FALSE,
     advances |-> 0, last |-> [op |-> "none", value |-> <<>>],
     yielded |-> <<>>]

\* ------------------------------------------------------------------
\* apply_config before its [Run] section.  samples, collected: the locals
\* collected_samples and samples; err: the exception in flight; last_io: the
\* value of the last ':IO:OUTPut' line written; taken: for every sample
\* read, last_io and the state of the sequencer at that time; signalled:
\* next() has returned None; written, at_failure: the lines written by the
\* run, and their number when an exception was raised; bare: send_query
\* was called on a batch without a fragment.
\* ------------------------------------------------------------------
NoRun ==
    [pc |-> "none", samples |-> 0, collected |-> 0, err |-> "",
     last_io |-> <<>>, taken |-> <<>>, signalled |-> FALSE, written |-> 0,
     at_failure |-> <<>>, bare |-> FALSE]

\* ------------------------------------------------------------------
\* Initial state: TelnetClient.__init__ and the module level Q
\* ------------------------------------------------------------------
Init ==
    /\ Q = QueueInit
    /\ asked = <<>>
    /\ sock = "None"
    /\ wire = <<>>
    /\ nwritten = 0
    /\ devOut = <<>>
    /\ inbound = <<>>
    /\ pc = "idle"
    /\ command = ""
    /\ sent = <<>>
    /\ msgBuf = <<>>
    /\ elapsed = 0
    /\ blocked = 0
    /\ nrecv = 0
    /\ seen = <<>>
    /\ ret = NoCall
    /\ surfaced = {}
    /\ api = ApiInit
    /\ call = NoApiCall
    /\ out = NoOutcome
    /\ script = NoScript
    /\ io_sequencer = NoSequencer
    /\ run = NoRun

\* ------------------------------------------------------------------
\* Command descriptors: each call stages one fragment and returns it
\* ------------------------------------------------------------------
QueryStub == ":READ"
ControlStub == ":SENSe:VOLTage:DC:RANGe"
SettingStub == "*WAI"
Subs == {"None", "TEMP"}
Values == {"10V"}

\* a query fragment that lacks its question mark
QueryTextNoMark(stub, sub) ==
    IF sub # "None" THEN stub \o " " \o sub ELSE stub

QueryText(stub, sub) ==
    IF sub # "None" THEN stub \o "? " \o sub ELSE stub \o "?"

SetText(stub, value) == stub \o " " \o value

SettingText(stub) == stub

Stage(m, wait, op) ==
    /\ pc = "idle"
    /\ Len(Q.items) < MaxItems
    /\ Q' = QPut(Q, m, wait)
    /\ asked' = Append(asked, wait)
    /\ ret' = Returned(op, PyStr(m))
    /\ UNCHANGED <<sock, wire, nwritten, devOut, inbound, pc, command,
                   sent, msgBuf, elapsed, blocked, nrecv, seen, surfaced>>
    /\ UNCHANGED hostVars

ControlQueryGet == \E sub \in Subs :
    Stage(QueryText(QueryStub, sub), TRUE, "ControlQuery.get")

ControlSet == \E value \in Values :
    Stage(SetText(ControlStub, value), FALSE, "Control.set")

ControlSettingGet ==
    Stage(SettingText(SettingStub), FALSE, "ControlSetting.get")

\* ------------------------------------------------------------------
\* TelnetClient.connect / close
\* ------------------------------------------------------------------
\* a new socket object: nothing written, nothing buffered
FreshLink ==
    /\ wire' = <<>>
    /\ nwritten' = 0
    /\ devOut' = <<>>
    /\ inbound' = <<>>

Connect ==
    /\ pc = "idle"
    /\ FreshLink
    /\ \/ /\ sock' = "connected"
          /\ ret' = Returned("connect", PyNone)
       \/ \* self.sock is assigned before sock.connect() raises
          /\ sock' = "unconnected"
          /\ ret' = Raised("connect", "ConnectionError", "connect")
    /\ UNCHANGED <<Q, asked, pc, command, sent, msgBuf, elapsed, blocked,
                   nrecv, seen, surfaced>>
    /\ UNCHANGED hostVars

Close ==
    /\ pc = "idle"
    /\ IF sock # "None"
       THEN sock' = "None" /\ FreshLink
       ELSE UNCHANGED <<sock, wire, nwritten, devOut, inbound>>
    /\ ret' = Returned("close", PyNone)
    /\ UNCHANGED <<Q, asked, pc, command, sent, msgBuf, elapsed, blocked,
                   nrecv, seen, surfaced>>
    /\ UNCHANGED hostVars

\* ------------------------------------------------------------------
\* sock.send(): the ways it can end, by the state of the socket
\* ------------------------------------------------------------------
SendOutcomes(s) ==
    IF s = "connected"
    THEN {"ok", "BrokenPipeError", "socket.timeout", "OSError"}
    ELSE {"BrokenPipeError", "OSError"}

\* the socket after a send that ended in outcome o
SockAfterSend(s, o) ==
    IF o \in {"BrokenPipeError", "OSError"} THEN "unconnected" ELSE s

\* the except clauses of send_query / send_command
SendError(op, o) ==
    CASE o = "socket.timeout" ->
           Raised(op, "TimeoutError: Timeout waiting for response", "send")
      [] o = "BrokenPipeError" ->
           Raised(op, "ConnectionError: Connection lost while sending", "send")
      [] OTHER ->
           Raised(op, "RuntimeError: Failed to send", "send")

\* 'if self.sock is None: raise RuntimeError(...)'
NotConnectedError == "RuntimeError: Not connected to any server."

RefusesSend(s) == s = "None"

\* the locals of a call that is over
NoFrame ==
    /\ command' = ""
    /\ sent' = <<>>
    /\ msgBuf' = <<>>
    /\ elapsed' = 0
    /\ blocked' = 0
    /\ nrecv' = 0
    /\ seen' = <<>>

\* entry of _receive_response
EnterReceive(op) ==
    /\ pc' = op
    /\ msgBuf' = <<>>
    /\ elapsed' = 0
    /\ blocked' = 0
    /\ nrecv' = 0
    /\ seen' = <<>>
    /\ ret' = [NoCall EXCEPT !.op = op, !.outcome = "pending"]

\* outcome record of a call that got as far as the socket
Done(op, outcome, value, err, cause, q, texts, n, t, raw, size) ==
    [op |-> op, outcome |-> outcome, value |-> value, err |-> err,
     cause |-> cause, batch |-> q, sent |-> texts, nrecv |-> n, took |-> t,
     raw |-> raw, size |-> size, text |-> <<>>]

\* ------------------------------------------------------------------
\* TelnetClient.send_query / send_command up to the first recv()
\* ------------------------------------------------------------------
\* 'if Q.wait():' of send_query
ReadsReply(q) == QWait(q)

\* send_query that clears the batch in a 'finally'
QAfterAlwaysCleared(q, outcome) == QClear(q)

\* the batch when send_query ends: Q.clear() is reached only on return
QAfter(q, outcome) == IF outcome = "returned" THEN QClear(q) ELSE q

\* the line holds a query fragment (the instrument answers it)
Asks == \E i \in 1..Len(asked) : asked[i]

\* the call op fails before or in sock.send(): nothing is written
FailSend(op, r) ==
    /\ ret' = r
    /\ UNCHANGED <<Q, asked, wire, nwritten, devOut, inbound, pc, command,
                   sent, msgBuf, elapsed, blocked, nrecv, seen, surfaced>>

\* sock.send(bytes(text)) succeeded: one more line on the wire
Write(text, asks) ==
    /\ nwritten < MaxWrites
    /\ nwritten' = nwritten + 1
    /\ wire' = Append(wire, [n |-> nwritten + 1, asks |-> asks])
    /\ command' = text
    /\ sent' = Append(sent, text)

SendQuery ==
    /\ pc = "idle"
    /\ UNCHANGED hostVars
    /\ IF RefusesSend(sock)
       THEN /\ FailSend("send_query", Raised("send_query", NotConnectedError, ""))
            /\ UNCHANGED sock
       ELSE \E o \in SendOutcomes(sock) :
            /\ sock' = SockAfterSend(sock, o)
            /\ IF o # "ok"
               THEN FailSend("send_query", SendError("send_query", o))
               ELSE IF ReadsReply(Q)
               THEN /\ Write(QGet(Q) \o "\r\n", Asks)
                    /\ EnterReceive("send_query")
                    /\ UNCHANGED <<Q, asked, devOut, inbound, surfaced>>
               ELSE /\ nwritten < MaxWrites
                    /\ nwritten' = nwritten + 1
                    /\ wire' = Append(wire, [n |-> nwritten + 1, asks |-> Asks])
                    /\ Q' = QAfter(Q, "returned")
                    /\ asked' = IF Q' = Q THEN asked ELSE <<>>
                    /\ ret' = Done("send_query", "returned", PyTrue, "", "", Q,
                                   <<QGet(Q) \o "\r\n">>, 0, 0, <<>>, 0)
                    /\ UNCHANGED <<devOut, inbound, pc, command, sent, msgBuf,
                                   elapsed, blocked, nrecv, seen, surfaced>>

Commands == {"*IDN?"}

SendCommand == \E cmd \in Commands :
    /\ pc = "idle"
    /\ UNCHANGED hostVars
    /\ IF RefusesSend(sock)
       THEN /\ FailSend("send_command",
                        Raised("send_command", NotConnectedError, ""))
            /\ UNCHANGED sock
       ELSE \E o \in SendOutcomes(sock) :
            /\ sock' = SockAfterSend(sock, o)
            /\ IF o # "ok"
               THEN FailSend("send_command", SendError("send_command", o))
               ELSE /\ Write(cmd \o "\r\n", TRUE)
                    /\ EnterReceive("send_command")
                    /\ UNCHANGED <<Q, asked, devOut, inbound, surfaced>>

\* a direct call of _receive_response on a connected socket
Receive ==
    /\ pc = "idle"
    /\ sock = "connected"
    /\ EnterReceive("_receive_response")
    /\ UNCHANGED <<Q, asked, sock, wire, nwritten, devOut, inbound, command,
                   sent, surfaced>>
    /\ UNCHANGED hostVars

\* ------------------------------------------------------------------
\* TelnetClient._receive_response: one turn of the 'while True' loop
\* ------------------------------------------------------------------
Sentinel == "Timeout Error"

\* what one received chunk does to msgBuf, t ticks after 'start'
RecvStep(buf0, raw, t) ==
    LET rcv == Strip(raw, {CR})
    IN  IF Contains(rcv, LF)
        THEN LET buf == buf0 \o Strip(rcv, {LF})
             IN  [kind |-> IF ValidUtf8(buf) THEN "line" ELSE "decode",
                  buf |-> buf]
        ELSE LET buf == buf0 \o rcv
             IN  [kind |-> IF Len(buf) > MAX_RESPONSE_SIZE THEN "toolarge"
                           ELSE IF t > Timeout THEN "sentinel"
                           ELSE "loop",
                  buf |-> buf]

\* the value _receive_response returns
Response(kind, buf) ==
    IF kind = "line" THEN PyStr(Decode(buf)) ELSE PyStr(Sentinel)

\* the exception that leaves the call op when _receive_response raises
RecvError(op, cause) ==
    IF op = "_receive_response"
    THEN CASE cause = "decode" -> "RuntimeError: Failed to decode response"
           [] cause = "toolarge" -> "RuntimeError: Response exceeded maximum size"
           [] OTHER -> "RuntimeError: Failed to receive response"
    ELSE "RuntimeError: Failed to send"

\* "Timeout Error" as code points
SentinelCodes == <<84, 105, 109, 101, 111, 117, 116, 32, 69, 114, 114, 111, 114>>

\* the code points of the str that _receive_response returns
Codes(kind, buf) ==
    IF kind = "line" THEN [i \in 1..Len(buf) |-> buf[i].b] ELSE SentinelCodes

\* how a response timeout of a flush surfaced
Surfaced(op, kind) ==
    IF op # "send_query" THEN {}
    ELSE IF kind = "sentinel" THEN {"sentinel"}
    ELSE IF kind = "timed out" THEN {"raised"}
    ELSE {}

\* the call blocked in _receive_response ends with kind
Finish(kind, buf, raw, n) ==
    LET outcome == IF kind \in {"line", "sentinel"} THEN "returned"
                   ELSE "raised"
    IN  /\ pc' = "idle"
        /\ Q' = IF pc = "send_query" THEN QAfter(Q, outcome) ELSE Q
        /\ asked' = IF Q' = Q THEN asked ELSE <<>>
        /\ surfaced' = surfaced \cup Surfaced(pc, kind)
        /\ ret' = IF outcome = "returned"
                  THEN [Done(pc, outcome, Response(kind, buf), "", kind, Q,
                             sent, n, elapsed, raw, Len(buf))
                            EXCEPT !.text = Codes(kind, buf)]
                  ELSE Done(pc, outcome, PyNone, RecvError(pc, kind), kind,
                            Q, sent, n, elapsed, raw, Len(buf))
        /\ NoFrame

\* sock.recv(BUFSIZE) returns the bytes that have arrived, BUFSIZE at most
RecvData ==
    /\ pc # "idle"
    /\ inbound # <<>>
    /\ LET n == Min(BUFSIZE, Len(inbound))
           raw == SubSeq(inbound, 1, n)
           step == RecvStep(msgBuf, raw, elapsed)
       IN  /\ inbound' = SubSeq(inbound, n + 1, Len(inbound))
           /\ IF step.kind = "loop"
              THEN /\ msgBuf' = step.buf
                   /\ blocked' = 0
                   /\ seen' = seen \o raw
                   /\ nrecv' = nrecv + 1
                   /\ UNCHANGED <<Q, asked, pc, ret, surfaced, elapsed,
                                  command, sent>>
              ELSE Finish(step.kind, step.buf, seen \o raw, nrecv + 1)
    /\ UNCHANGED <<sock, wire, nwritten, devOut>>
    /\ UNCHANGED hostVars

\* sock.recv() raises socket.timeout after self.timeout without data
RecvTimeout ==
    /\ pc # "idle"
    /\ inbound = <<>>
    /\ blocked >= Timeout
    /\ Finish("timed out", msgBuf, seen, nrecv)
    /\ UNCHANGED <<sock, wire, nwritten, devOut, inbound>>
    /\ UNCHANGED hostVars

\* one tick passes while the client is blocked in recv() without data
Tick ==
    /\ pc # "idle"
    /\ inbound = <<>>
    /\ blocked < Timeout
    /\ elapsed' = elapsed + 1
    /\ blocked' = blocked + 1
    /\ UNCHANGED <<Q, asked, sock, wire, nwritten, devOut, inbound, pc,
                   command, sent, msgBuf, nrecv, seen, ret, surfaced>>
    /\ UNCHANGED hostVars

\* ------------------------------------------------------------------
\* The instrument: answers a line that holds a query with one line.
\* The client observes the instrument only through recv(), so the steps the
\* instrument takes while the client is not in recv() are represented by
\* the same steps taken when the client next enters recv().
\* ------------------------------------------------------------------
Reply(n, cr) ==
    IF cr THEN <<[b |-> 49, req |-> n], [b |-> CR, req |-> n],
                 [b |-> LF, req |-> n]>>
    ELSE <<[b |-> 49, req |-> n], [b |-> LF, req |-> n]>>

DeviceProcess ==
    /\ pc # "idle"
    /\ wire # <<>>
    /\ wire' = Tail(wire)
    /\ IF Head(wire).asks
       THEN \E cr \in BOOLEAN : devOut' = devOut \o Reply(Head(wire).n, cr)
       ELSE devOut' = devOut
    /\ UNCHANGED <<Q, asked, sock, nwritten, inbound, pc, command, sent,
                   msgBuf, elapsed, blocked, nrecv, seen, ret, surfaced>>
    /\ UNCHANGED hostVars

DeviceSend ==
    /\ pc # "idle"
    /\ devOut # <<>>
    /\ devOut' = Tail(devOut)
    /\ inbound' = Append(inbound, Head(devOut))
    /\ UNCHANGED <<Q, asked, sock, wire, nwritten, pc, command, sent, msgBuf,
                   elapsed, blocked, nrecv, seen, ret, surfaced>>
    /\ UNCHANGED hostVars

\* ------------------------------------------------------------------
\* Specification of a device session: descriptor calls, flushes and the
\* connection, as apply_config and RestrictedAPI use them (send_command has
\* no caller in the program)
\* ------------------------------------------------------------------
Next ==
    \/ ControlQueryGet
    \/ ControlSet
    \/ ControlSettingGet
    \/ Connect
    \/ Close
    \/ SendQuery
    \/ RecvData
    \/ RecvTimeout
    \/ Tick
    \/ DeviceProcess
    \/ DeviceSend

Spec == Init /\ [][Next]_vars

\* ------------------------------------------------------------------
\* Specification of the MessageQueue interface: the descriptors put
\* fragments, and get(), wait() and clear() are called in any order, on a
\* client that is connected and closed but never flushes
\* ------------------------------------------------------------------
\* a call of a MessageQueue method that stages nothing
QueueCall(op, value, q) ==
    /\ pc = "idle"
    /\ ret' = Returned(op, value)
    /\ Q' = q
    /\ asked' = IF q = Q THEN asked ELSE <<>>
    /\ UNCHANGED <<sock, wire, nwritten, devOut, inbound, pc, command,
                   sent, msgBuf, elapsed, blocked, nrecv, seen, surfaced>>
    /\ UNCHANGED hostVars

QueueGet == QueueCall("MessageQueue.get", PyStr(QGet(Q)), Q)

QueueWait ==
    QueueCall("MessageQueue.wait", IF QWait(Q) THEN PyTrue ELSE PyNone, Q)

QueueClear == QueueCall("MessageQueue.clear", PyNone, QClear(Q))

NextQueue ==
    \/ ControlQueryGet
    \/ ControlSet
    \/ ControlSettingGet
    \/ QueueGet
    \/ QueueWait
    \/ QueueClear
    \/ Connect
    \/ Close

SpecQueue == Init /\ [][NextQueue]_vars

\* ------------------------------------------------------------------
\* Specification of the whole TelnetClient interface
\* ------------------------------------------------------------------
NextClient ==
    \/ Next
    \/ SendCommand

SpecClient == Init /\ [][NextClient]_vars

\* ------------------------------------------------------------------
\* Specification of _receive_response alone, fed an arbitrary byte stream
\* that arrives in arbitrary pieces at arbitrary times
\* ------------------------------------------------------------------
RawBytes == {65, CR, LF, 255}

RawStreams ==
    UNION {[1..n -> {[b |-> x, req |-> 0] : x \in RawBytes}] : n \in 1..MaxStream}

InitRecv ==
    /\ Q = QueueInit
    /\ asked = <<>>
    /\ sock = "connected"
    /\ wire = <<>>
    /\ nwritten = 0
    /\ devOut \in RawStreams
    /\ inbound = <<>>
    /\ pc = "idle"
    /\ command = ""
    /\ sent = <<>>
    /\ msgBuf = <<>>
    /\ elapsed = 0
    /\ blocked = 0
    /\ nrecv = 0
    /\ seen = <<>>
    /\ ret = NoCall
    /\ surfaced = {}
    /\ api = ApiInit
    /\ call = NoApiCall
    /\ out = NoOutcome
    /\ script = NoScript
    /\ io_sequencer = NoSequencer
    /\ run = NoRun

NextRecv ==
    \/ Receive
    \/ RecvData
    \/ RecvTimeout
    \/ Tick
    \/ DeviceSend

SpecRecv == InitRecv /\ [][NextRecv]_vars

\* ------------------------------------------------------------------
\* Text of a reply, as measure reads it (str methods on code points)
\* ------------------------------------------------------------------
Comma == 44

IsSpace(c) == c \in {9, 10, 11, 12, 13, 32}

IsDigit(c) == c \in 48..57

\* str.strip()
RECURSIVE TrimLeft(_)
TrimLeft(t) == IF Len(t) > 0 /\ IsSpace(t[1]) THEN TrimLeft(Tail(t)) ELSE t

RECURSIVE TrimRight(_)
TrimRight(t) ==
    IF Len(t) > 0 /\ IsSpace(t[Len(t)])
    THEN TrimRight(SubSeq(t, 1, Len(t) - 1)) ELSE t

Trim(t) == TrimRight(TrimLeft(t))

\* ',' in result_str
HasComma(t) == \E i \in 1..Len(t) : t[i] = Comma

\* str.split(','): the fields between the commas
RECURSIVE Split(_)
Split(t) ==
    IF ~HasComma(t) THEN <<t>>
    ELSE LET k == CHOOSE i \in 1..Len(t) :
                      t[i] = Comma /\ \A j \in 1..(i - 1) : t[j] # Comma
         IN  <<SubSeq(t, 1, k - 1)>> \o Split(SubSeq(t, k + 1, Len(t)))

\* float(text) succeeds; of the texts over digits, letters, commas and
\* white space these are the non-empty texts of digits
FloatOk(t) == Len(t) > 0 /\ \A i \in 1..Len(t) : IsDigit(t[i])

\* float(text) of such a text
RECURSIVE FloatOf(_)
FloatOf(t) ==
    IF Len(t) = 0 THEN 0
    ELSE 10 * FloatOf(SubSeq(t, 1, Len(t) - 1)) + (t[Len(t)] - 48)

\* the try block of measure: the sample of one reply, <<>> after ValueError
ParseSample(t) ==
    IF HasComma(t)
    THEN LET fields == Split(t)
         IN  IF \A i \in 1..Len(fields) : FloatOk(Trim(fields[i]))
             THEN <<FloatOf(Trim(fields[1]))>>
             ELSE <<>>
    ELSE IF FloatOk(Trim(t)) THEN <<FloatOf(Trim(t))>> ELSE <<>>

\* [r for r in results if r is not None]
RECURSIVE NotNone(_)
NotNone(rs) ==
    IF Len(rs) = 0 THEN <<>>
    ELSE IF Head(rs) = <<>> THEN NotNone(Tail(rs))
    ELSE <<Head(rs)[1]>> \o NotNone(Tail(rs))

\* self.results.extend(results) without the filter
ExtendWithAll(acc, rs) ==
    acc \o [i \in 1..Len(rs) |-> IF rs[i] = <<>> THEN 0 ELSE rs[i][1]]

\* self.results.extend([r for r in results if r is not None])
Extend(acc, rs) == acc \o NotNone(rs)

\* ------------------------------------------------------------------
\* RestrictedAPI: validation of the arguments
\* ------------------------------------------------------------------
IO_MAX == 2047
MAX_SAMPLES == 2         \* largest sample count of measure (5000 in the code)

\* a check of the pattern that has lost its upper limit
ValidPatternNoUpper(v) == 0 <= v

\* 'if not 0 <= value <= 2047'
ValidPattern(v) == 0 <= v /\ v <= IO_MAX

\* 'if samples < 1 or samples > 5000'
ValidSamples(n) == ~(n < 1 \/ n > MAX_SAMPLES)

\* str.upper() of the texts a call is given
Upper(t) ==
    CASE t = "10v" -> "10V"
      [] t = "fast" -> "FAST"
      [] OTHER -> t

valid_ranges ==
    {"100MV", "1V", "10V", "100V", "1000V", "AUTO", "MAX", "MIN", "DEFAULT"}

valid_speeds == {"SLOW", "MEDIUM", "MED", "FAST"}

ValidRange(t) == Upper(t) \in valid_ranges

ValidSpeed(t) == Upper(t) \in valid_speeds

\* 'if speed_upper == "MEDIUM": speed_upper = "MED"'
NormalSpeed(t) == IF Upper(t) = "MEDIUM" THEN "MED" ELSE Upper(t)

IoStub == ":IO:OUTPut"
SpeedStub == ":SENSe:VOLTage:DC:NPLCycles"

\* the arguments the calls are given
IoValues == {-1, 0, IO_MAX, IO_MAX + 1}
SampleCounts == 0..(MAX_SAMPLES + 1)
RangeNames == {"10v", "5V"}
SpeedNames == {"MEDIUM", "TURBO"}

\* ------------------------------------------------------------------
\* RestrictedAPI calls.  A call is entered when no call is in progress;
\* its flush is the send_query of the transport; Resume is the code of the
\* method after conn.send_query() has returned or raised.  (delay_ms of
\* measure only sleeps between two samples and is left out: time matters to
\* the client only while it is blocked in recv().)
\* ------------------------------------------------------------------
Snapshot ==
    [Q |-> Q, sock |-> sock, nwritten |-> nwritten, wire |-> wire,
     results |-> api.results]

Entered(op, value, name) ==
    [NoApiCall EXCEPT !.op = op, !.value = value, !.name = name,
                      !.before = Snapshot]

\* the flushes a call makes when it is not interrupted
Flushes(op, value) == IF op = "measure" THEN value ELSE 1

CanEnter(op, value) ==
    /\ pc = "idle"
    /\ call.op = "none"
    /\ nwritten + Flushes(op, value) <= MaxWrites
    /\ Len(Q.items) < MaxItems

\* the call raises ValueError in its validation
Rejects(op, value, name) ==
    /\ out' = [outcome |-> "raised", err |-> "ValueError", result |-> <<>>,
               call |-> Entered(op, value, name)]
    /\ UNCHANGED <<Q, asked, sock, wire, nwritten, devOut, inbound, pc,
                   command, sent, msgBuf, elapsed, blocked, nrecv, seen, ret,
                   surfaced, api, call>>
    /\ UNCHANGED runVars

\* the call stages the fragment m with Q.put(m, wait) or a descriptor
Stages(m, wait, by) ==
    /\ Q' = QPut(Q, m, wait)
    /\ asked' = Append(asked, wait)
    /\ ret' = Returned(by, PyStr(m))

\* the call passes its validation and stages its first fragment
Accepts(op, value, name, m, wait, by) ==
    /\ Stages(m, wait, by)
    /\ call' = Entered(op, value, name)
    /\ out' = [NoOutcome EXCEPT !.outcome = "pending"]
    /\ UNCHANGED <<sock, wire, nwritten, devOut, inbound, pc, command, sent,
                   msgBuf, elapsed, blocked, nrecv, seen, surfaced, api>>
    /\ UNCHANGED runVars

ApiSetIo == \E v \in IoValues :
    /\ CanEnter("set_io", v)
    /\ IF ValidPattern(v)
       THEN Accepts("set_io", v, "", SetText(IoStub, ToString(v)), FALSE,
                    "MessageQueue.put")
       ELSE Rejects("set_io", v, "")

ApiMeasure == \E n \in SampleCounts :
    /\ CanEnter("measure", IF ValidSamples(n) THEN n ELSE 0)
    /\ IF ValidSamples(n)
       THEN Accepts("measure", n, "", QueryText(QueryStub, "None"), TRUE,
                    "ControlQuery.get")
       ELSE Rejects("measure", n, "")

ApiSetRange == \E r \in RangeNames :
    /\ CanEnter("set_range", 1)
    /\ IF ValidRange(r)
       THEN Accepts("set_range", 0, r, SetText(ControlStub, r), FALSE,
                    "Control.set")
       ELSE Rejects("set_range", 0, r)

ApiSetSpeed == \E sp \in SpeedNames :
    /\ CanEnter("set_speed", 1)
    /\ IF ValidSpeed(sp)
       THEN Accepts("set_speed", 0, sp, SetText(SpeedStub, NormalSpeed(sp)),
                    FALSE, "Control.set")
       ELSE Rejects("set_speed", 0, sp)

\* self.conn.send_query() of the call in progress
ApiFlush ==
    /\ call.op # "none"
    /\ ret.op # "send_query"
    /\ SendQuery

\* the call ends: its outcome, and no call in progress
Ends(outcome, err, result, c) ==
    /\ out' = [outcome |-> outcome, err |-> err, result |-> result, call |-> c]
    /\ call' = NoApiCall

\* the code of the call after conn.send_query()
Resume ==
    /\ pc = "idle"
    /\ call.op # "none"
    /\ ret.op = "send_query"
    /\ ret.outcome # "pending"
    /\ LET c == [call EXCEPT !.flushes = IF ret.sent = <<>> THEN @
                                         ELSE Append(@, ret.batch.items)]
       IN  IF ret.outcome = "raised"
           THEN /\ Ends("raised", ret.err, <<>>, c)
                /\ UNCHANGED <<Q, asked, ret, api>>
           ELSE IF call.op = "measure"
           THEN LET r == ParseSample(ret.text)
                    m == [c EXCEPT !.i = call.i + 1,
                                   !.results = Append(call.results, r),
                                   !.replies = Append(call.replies, ret.text),
                                   !.warnings = call.warnings
                                                + IF r = <<>> THEN 1 ELSE 0]
                IN  IF m.i < call.value
                    THEN /\ Stages(QueryText(QueryStub, "None"), TRUE,
                                   "ControlQuery.get")
                         /\ call' = m
                         /\ UNCHANGED <<out, api>>
                    ELSE /\ api' = [api EXCEPT
                                    !.results = Extend(api.results, m.results)]
                         /\ Ends("returned", "", m.results, m)
                         /\ UNCHANGED <<Q, asked, ret>>
           ELSE /\ api' = CASE call.op = "set_io" ->
                                [api EXCEPT !.current_io = <<call.value>>]
                            [] call.op = "set_range" ->
                                [api EXCEPT !.current_range = <<call.name>>]
                            [] OTHER -> api
                /\ Ends("returned", "", <<>>, c)
                /\ UNCHANGED <<Q, asked, ret>>
    /\ UNCHANGED <<sock, wire, nwritten, devOut, inbound, pc, command, sent,
                   msgBuf, elapsed, blocked, nrecv, seen, surfaced>>
    /\ UNCHANGED runVars

\* ------------------------------------------------------------------
\* The instrument of a measurement: it answers a line that holds a query
\* with one line of text, a number, a compound of fields or anything else
\* ------------------------------------------------------------------
Payloads == {<<49>>, <<65>>, <<49, 44, 65>>, <<50, 44, 49>>}

Answer(n, payload, cr) ==
    [i \in 1..Len(payload) |-> [b |-> payload[i], req |-> n]]
        \o (IF cr THEN <<[b |-> CR, req |-> n]>> ELSE <<>>)
        \o <<[b |-> LF, req |-> n]>>

DeviceAnswer ==
    /\ pc # "idle"
    /\ wire # <<>>
    /\ wire' = Tail(wire)
    /\ IF Head(wire).asks
       THEN \E p \in Payloads, cr \in BOOLEAN :
                devOut' = devOut \o Answer(Head(wire).n, p, cr)
       ELSE devOut' = devOut
    /\ UNCHANGED <<Q, asked, sock, nwritten, inbound, pc, command, sent,
                   msgBuf, elapsed, blocked, nrecv, seen, ret, surfaced>>
    /\ UNCHANGED hostVars

\* ------------------------------------------------------------------
\* Specification of a script's session on the capability API: apply_config
\* builds the RestrictedAPI on a connected client with an empty batch.  The
\* instrument of this session answers before the response timeout, so no
\* time passes; a flush fails in sock.send().
\* ------------------------------------------------------------------
InitApi ==
    /\ Q = QueueInit
    /\ asked = <<>>
    /\ sock = "connected"
    /\ wire = <<>>
    /\ nwritten = 0
    /\ devOut = <<>>
    /\ inbound = <<>>
    /\ pc = "idle"
    /\ command = ""
    /\ sent = <<>>
    /\ msgBuf = <<>>
    /\ elapsed = 0
    /\ blocked = 0
    /\ nrecv = 0
    /\ seen = <<>>
    /\ ret = NoCall
    /\ surfaced = {}
    /\ api = ApiInit
    /\ call = NoApiCall
    /\ out = NoOutcome
    /\ script = NoScript
    /\ io_sequencer = NoSequencer
    /\ run = NoRun

NextApi ==
    \/ ApiSetIo
    \/ ApiMeasure
    \/ ApiSetRange
    \/ ApiSetSpeed
    \/ ApiFlush
    \/ Resume
    \/ RecvData
    \/ DeviceAnswer
    \/ DeviceSend

SpecApi == InitApi /\ [][NextApi]_vars

\* ------------------------------------------------------------------
\* Exceptions: the class of an error, and the except clauses of
\* execute_script_with_timeout and of apply_config
\* ------------------------------------------------------------------
\* what timeout_handler raises
DeadlineError == "TimeoutError: Script execution exceeded timeout"

SyntaxError == "SyntaxError"

\* the errors a script raises by itself
ScriptErrors == {"ValueError"}

ErrorClass(err) ==
    CASE err \in {DeadlineError,
                  "TimeoutError: Timeout waiting for response"} -> "TimeoutError"
      [] err = "ConnectionError: Connection lost while sending" -> "ConnectionError"
      [] err \in {"RuntimeError: Failed to send", NotConnectedError} -> "RuntimeError"
      [] err = "ValueError" -> "ValueError"
      [] err = SyntaxError -> "SyntaxError"
      [] OTHER -> "BaseException"

\* the classes derived from Exception
ExceptionClasses ==
    {"TimeoutError", "ConnectionError", "RuntimeError", "ValueError",
     "SyntaxError"}

\* apply_config with 'except TimeoutError' alone
HostCatchesTimeoutOnly(err) == ErrorClass(err) = "TimeoutError"

\* 'except TimeoutError' / 'except Exception' of apply_config
HostCatches(err) ==
    ErrorClass(err) = "TimeoutError" \/ ErrorClass(err) \in ExceptionClasses

\* the lookup that prefers main
EntryPointMainFirst(sequence, main) ==
    IF main THEN "main" ELSE IF sequence THEN "sequence" ELSE "none"

\* 'if "sequence" in namespace ... elif "main" in namespace ... else'
EntryPoint(sequence, main) ==
    IF sequence THEN "sequence" ELSE IF main THEN "main" ELSE "none"

\* ------------------------------------------------------------------
\* The [Script] section of apply_config and execute_script_with_timeout.
\* The script is any program over the capability API: its body and its
\* entry point make calls, raise, or end; it handles no exception (the
\* scripts with try statements are SpecAbort).  The deadline is a SIGALRM
\* that may arrive at any point while it is armed.
\* ------------------------------------------------------------------
\* the exception err starts to propagate: the moment of the failure
Fails(s, err) ==
    [s EXCEPT !.pc = "except", !.err = err, !.failed = TRUE,
              !.kept = IF s.failed THEN s.kept ELSE api.results]

Transport ==
    <<Q, asked, sock, wire, nwritten, devOut, inbound, pc, command, sent,
      msgBuf, elapsed, blocked, nrecv, seen, ret, surfaced>>

\* the script's own code is running
InScript ==
    /\ script.pc \in {"body", "entry"}
    /\ call.op = "none"
    /\ pc = "idle"
    /\ out.outcome # "raised"

\* apply_config calls execute_script_with_timeout, which arms the deadline
Invoke ==
    /\ script.pc = "none"
    /\ script' = [script EXCEPT !.pc = "compile", !.alarm = TRUE,
                                !.handler = "timeout_handler"]
    /\ UNCHANGED <<Transport, api, call, out, io_sequencer, run>>

\* compile(script_code, script_file, 'exec')
Compile ==
    /\ script.pc = "compile"
    /\ \E ok \in BOOLEAN :
           script' = IF ok THEN [script EXCEPT !.pc = "body"]
                     ELSE Fails([script EXCEPT !.compiles = FALSE], SyntaxError)
    /\ UNCHANGED <<Transport, api, call, out, io_sequencer, run>>

\* the script calls the capability API
ScriptCall ==
    /\ InScript
    /\ \/ ApiMeasure
       \/ ApiSetIo

\* the script raises an error of its own
ScriptRaise ==
    /\ InScript
    /\ \E err \in ScriptErrors : script' = Fails(script, err)
    /\ UNCHANGED <<Transport, api, call, out, io_sequencer, run>>

\* exec(compiled_code, namespace) ends: the names the body has defined
BodyEnds ==
    /\ InScript
    /\ script.pc = "body"
    /\ \E sq \in BOOLEAN, mn \in BOOLEAN :
           script' = [script EXCEPT !.pc = "lookup", !.sequence = sq,
                                    !.main = mn]
    /\ UNCHANGED <<Transport, api, call, out, io_sequencer, run>>

\* the lookup of the entry point
Lookup ==
    /\ script.pc = "lookup"
    /\ LET e == EntryPoint(script.sequence, script.main)
       IN  script' =
               IF e # "none"
               THEN [script EXCEPT !.pc = "entry", !.looked = TRUE,
                                   !.called = Append(@, e)]
               ELSE [script EXCEPT !.pc = "finally", !.looked = TRUE,
                                   !.printed = @ \cup {"no entry point"},
                                   !.result = "api.results"]
    /\ UNCHANGED <<Transport, api, call, out, io_sequencer, run>>

\* the entry point returns
EntryReturns ==
    /\ InScript
    /\ script.pc = "entry"
    /\ script' = [script EXCEPT !.pc = "finally", !.result = "entry"]
    /\ UNCHANGED <<Transport, api, call, out, io_sequencer, run>>

\* a capability call has raised inside a try statement of the script, whose
\* except clause handles the exception: the script goes on
ScriptHandles ==
    /\ script.pc \in {"body", "entry"}
    /\ call.op = "none"
    /\ out.outcome = "raised"
    /\ out' = [NoOutcome EXCEPT !.outcome = "handled"]
    /\ UNCHANGED <<Transport, api, call, script, io_sequencer, run>>

\* a capability call has raised: the exception leaves the script
Propagate ==
    /\ script.pc \in {"body", "entry"}
    /\ call.op = "none"
    /\ out.outcome = "raised"
    /\ script' = Fails(script, out.err)
    /\ UNCHANGED <<Transport, api, call, out, io_sequencer, run>>

\* 'except TimeoutError' / 'except Exception' of execute_script_with_timeout
Except ==
    /\ script.pc = "except"
    /\ script' = [script EXCEPT
                  !.pc = "finally",
                  !.printed = @ \cup {IF ErrorClass(script.err) = "TimeoutError"
                                      THEN "Script execution timeout"
                                      ELSE "Script execution error"}]
    /\ UNCHANGED <<Transport, api, call, out, io_sequencer, run>>

\* the finally clause: signal.alarm(0), signal.signal(SIGALRM, old_handler)
Finally ==
    /\ script.pc = "finally"
    /\ script' = [script EXCEPT
                  !.pc = "exited", !.alarm = FALSE, !.handler = "previous",
                  !.exit = IF script.err = "" THEN "returned" ELSE "raised"]
    /\ UNCHANGED <<Transport, api, call, out, io_sequencer, run>>

\* SIGALRM: the alarm is spent and timeout_handler raises
Expired(s) == [s EXCEPT !.alarm = FALSE, !.expired = TRUE]

\* ... in the code of the script
ExpireInScript ==
    /\ script.alarm
    /\ script.pc \in {"compile", "body", "lookup", "entry"}
    /\ call.op = "none"
    /\ pc = "idle"
    /\ script' = Fails(Expired(script), DeadlineError)
    /\ UNCHANGED <<Transport, api, call, out, io_sequencer, run>>

\* ... in the code of a capability call, outside send_query
ExpireInCall ==
    /\ script.alarm
    /\ call.op # "none"
    /\ pc = "idle"
    /\ script' = Expired(script)
    /\ Ends("raised", DeadlineError, <<>>, call)
    /\ UNCHANGED <<Transport, api, io_sequencer, run>>

\* ... in measure, after self.results.extend(...) and before 'return
\* results': the samples of the call are in the accumulator and the call
\* raises
ExpireInReturn ==
    /\ script.alarm
    /\ pc = "idle"
    /\ call.op = "measure"
    /\ ret.op = "send_query"
    /\ ret.outcome = "returned"
    /\ call.i + 1 >= call.value
    /\ LET r == ParseSample(ret.text)
           m == [call EXCEPT !.i = call.i + 1,
                             !.results = Append(call.results, r),
                             !.replies = Append(call.replies, ret.text),
                             !.warnings = call.warnings
                                          + IF r = <<>> THEN 1 ELSE 0,
                             !.flushes = IF ret.sent = <<>> THEN @
                                         ELSE Append(@, ret.batch.items)]
       IN  /\ api' = [api EXCEPT !.results = Extend(api.results, m.results)]
           /\ Ends("raised", DeadlineError, <<>>, m)
    /\ script' = Expired(script)
    /\ UNCHANGED <<Transport, io_sequencer, run>>

\* ... in sock.recv(): the except clauses of _receive_response and of
\* send_query turn the TimeoutError into RuntimeError
ExpireInRecv ==
    /\ script.alarm
    /\ pc # "idle"
    /\ script' = [Expired(script) EXCEPT !.aborted = <<nwritten>>]
    /\ Finish("alarm", msgBuf, seen, nrecv)
    /\ UNCHANGED <<sock, wire, nwritten, devOut, inbound, api, call, out,
                   io_sequencer, run>>

\* ... in an except clause, before it prints
ExpireInExcept ==
    /\ script.alarm
    /\ script.pc = "except"
    /\ script' = [Fails(Expired(script), DeadlineError) EXCEPT !.pc = "finally"]
    /\ UNCHANGED <<Transport, api, call, out, io_sequencer, run>>

\* ... in the finally clause, before signal.alarm(0)
ExpireInFinally ==
    /\ script.alarm
    /\ script.pc = "finally"
    /\ script' = [Fails(Expired(script), DeadlineError) EXCEPT
                  !.pc = "exited", !.exit = "raised"]
    /\ UNCHANGED <<Transport, api, call, out, io_sequencer, run>>

\* apply_config after execute_script_with_timeout: the report, the saving
\* of the results (which may fail) and the return
HostAfter ==
    /\ script.pc = "exited"
    /\ \E saved \in BOOLEAN :
        script' =
            IF script.exit = "returned"
            THEN [script EXCEPT
                  !.pc = "host_done", !.host = "returned",
                  !.printed = @ \cup (IF saved THEN {"Script completed"}
                                     ELSE {"Script completed", "Script error"})]
            ELSE IF HostCatches(script.err)
            THEN [script EXCEPT
                  !.pc = "host_done", !.host = "returned",
                  !.printed = @ \cup {IF ErrorClass(script.err) = "TimeoutError"
                                      THEN "Script timeout" ELSE "Script error"}]
            ELSE [script EXCEPT !.pc = "host_done", !.host = "raised"]
    /\ UNCHANGED <<Transport, api, call, out, io_sequencer, run>>

\* ------------------------------------------------------------------
\* Specification of a script invocation: starts as the capability session
\* ------------------------------------------------------------------
NextScript ==
    \/ Invoke
    \/ Compile
    \/ ScriptCall
    \/ ScriptRaise
    \/ BodyEnds
    \/ Lookup
    \/ EntryReturns
    \/ Propagate
    \/ Except
    \/ Finally
    \/ ExpireInScript
    \/ ExpireInCall
    \/ ExpireInReturn
    \/ ExpireInRecv
    \/ ExpireInExcept
    \/ ExpireInFinally
    \/ HostAfter
    \/ ApiFlush
    \/ Resume
    \/ RecvData
    \/ DeviceAnswer
    \/ DeviceSend

SpecScript == InitApi /\ [][NextScript]_vars

\* ------------------------------------------------------------------
\* Specification of a script invocation whose script has try statements
\* around its capability calls
\* ------------------------------------------------------------------
NextAbort ==
    \/ NextScript
    \/ ScriptHandles

SpecAbort == InitApi /\ [][NextAbort]_vars

\* ------------------------------------------------------------------
\* The namespace execute_script_with_timeout hands to the script, and the
\* objects that are attributes of the objects in it
\* ------------------------------------------------------------------
Modes == {"restricted", "trusted", "developer"}

\* the safe_builtins of restricted mode
PureBuiltins ==
    {"len", "range", "enumerate", "zip", "max", "min", "sum", "abs", "round",
     "str", "int", "float", "bool", "list", "dict", "tuple", "set", "print",
     "True", "False", "None"}

\* __builtins__ of the interpreter: the pure ones, import and file access
FullBuiltins == PureBuiltins \cup {"__import__", "open"}

\* namespace.update({...})
ApiNames ==
    {"api", "set_io", "measure", "set_range", "set_speed", "wait",
     "get_statistics", "log", "set_metadata", "get_metadata", "clear_results",
     "save_results"}

Namespace(mode) ==
    CASE mode = "restricted" -> PureBuiltins \cup ApiNames
      [] mode = "trusted" -> FullBuiltins \cup {"math", "statistics"} \cup ApiNames
      [] OTHER -> FullBuiltins \cup ApiNames

\* the attributes set by RestrictedAPI.__init__ and TelnetClient.__init__,
\* and the modules __import__ gives
Attrs(o) ==
    CASE o = "api" -> {"api.conn", "api.measure_obj", "api.system_obj",
                       "api.results", "api.current_io", "api.current_range",
                       "api.metadata"}
      [] o = "api.conn" -> {"api.conn.host", "api.conn.port",
                            "api.conn.timeout", "api.conn.sock"}
      [] o = "__import__" -> {"os", "socket"}
      [] OTHER -> {}

\* import, filesystem and network primitives, and the raw connection
Forbidden == {"__import__", "open", "os", "socket", "api.conn", "api.conn.sock"}

\* the script starts with the namespace of its mode
Enter ==
    /\ script.pc = "none"
    /\ \E mode \in Modes :
           script' = [script EXCEPT !.pc = "body", !.mode = mode,
                                    !.reach = Namespace(mode)]
    /\ UNCHANGED <<Transport, api, call, out, io_sequencer, run>>

\* the script reads an attribute of an object it holds
Reach ==
    /\ script.pc = "body"
    /\ \E o \in script.reach : \E a \in Attrs(o) \ script.reach :
           script' = [script EXCEPT !.reach = @ \cup {a}]
    /\ UNCHANGED <<Transport, api, call, out, io_sequencer, run>>

NextSandbox ==
    \/ Enter
    \/ Reach

SpecSandbox == InitApi /\ [][NextSandbox]_vars

\* ------------------------------------------------------------------
\* IOSequencer
\* ------------------------------------------------------------------
MaxEnd == 7              \* largest 'end' of a range configuration
MaxPerStep == 2          \* largest samples_per_step
MaxAdvances == 10        \* calls of next() on one sequencer

\* list(range(start, end + 1, step))
RangeList(start, end, step) ==
    IF end + 1 > start
        THEN [i \in 1..(((end - start) \div step) + 1) |-> start + (i - 1) * step]
        ELSE <<>>

\* if not self.patterns: self.patterns = [0]
OrDefault(patterns) == IF patterns = <<>> THEN <<0>> ELSE patterns

\* the sequencer of an enabled [IO.Sequence] section
Configured(patterns, per_step, loop) ==
    [NoSequencer EXCEPT !.enabled = TRUE, !.patterns = OrDefault(patterns),
                        !.samples_per_step = per_step, !.loop = loop,
                        !.yielded = <<patterns>>]

RangeConfigs ==
    {RangeList(start, end, step) :
        start \in {0, 1}, end \in {0, 2, MaxEnd}, step \in {1, 2}}

ListConfigs == {<<5, 3>>, <<IO_MAX>>}

Sequencers ==
    {NoSequencer} \cup
    {Configured(p, n, l) : p \in RangeConfigs \cup ListConfigs,
                           n \in 1..MaxPerStep, l \in BOOLEAN}

\* should_change() that waits for one sample too many
should_changeLate(s) ==
    IF ~s.enabled \/ s.patterns = <<>>
        THEN FALSE
        ELSE s.samples_at_current > s.samples_per_step

should_change(s) ==
    IF ~s.enabled \/ s.patterns = <<>>
        THEN FALSE
        ELSE s.samples_at_current >= s.samples_per_step

\* <<>> is None
get_current(s) ==
    IF ~s.enabled \/ s.patterns = <<>>
        THEN <<>>
        ELSE IF s.current_index < Len(s.patterns)
                 THEN <<s.patterns[s.current_index + 1]>>
                 ELSE <<>>

is_complete(s) ==
    IF ~s.enabled \/ s.loop
        THEN FALSE
        ELSE s.current_index >= Len(s.patterns)

\* next() with the disabling left out
AdvanceStaysEnabled(s) ==
    IF ~s.enabled
        THEN [s |-> s, value |-> <<>>]
        ELSE LET t == [s EXCEPT !.samples_at_current = 0,
                                !.current_index = @ + 1]
             IN  IF t.current_index >= Len(t.patterns)
                     THEN IF t.loop
                              THEN LET u == [t EXCEPT !.current_index = 0]
                                   IN  [s |-> u, value |-> get_current(u)]
                              ELSE [s |-> t, value |-> <<>>]
                     ELSE [s |-> t, value |-> get_current(t)]

\* next() that ends the pass whether or not the sequencer loops
AdvanceNeverWraps(s) ==
    IF ~s.enabled
        THEN [s |-> s, value |-> <<>>]
        ELSE LET t == [s EXCEPT !.samples_at_current = 0,
                                !.current_index = @ + 1]
             IN  IF t.current_index >= Len(t.patterns)
                     THEN [s |-> [t EXCEPT !.enabled = FALSE], value |-> <<>>]
                     ELSE [s |-> t, value |-> get_current(t)]

\* next(): the sequencer after the call and the value returned
Advance(s) ==
    IF ~s.enabled
        THEN [s |-> s, value |-> <<>>]
        ELSE LET t == [s EXCEPT !.samples_at_current = 0,
                                !.current_index = @ + 1]
             IN  IF t.current_index >= Len(t.patterns)
                     THEN IF t.loop
                              THEN LET u == [t EXCEPT !.current_index = 0]
                                   IN  [s |-> u, value |-> get_current(u)]
                              ELSE [s |-> [t EXCEPT !.enabled = FALSE],
                                    value |-> <<>>]
                     ELSE [s |-> t, value |-> get_current(t)]

SeqFrame == <<Transport, api, call, out, script, run>>

SeqShouldChange ==
    /\ io_sequencer' =
           [io_sequencer EXCEPT !.last =
               [op |-> "should_change",
                value |-> <<should_change(io_sequencer)>>]]
    /\ UNCHANGED SeqFrame

SeqNext ==
    /\ io_sequencer.advances < MaxAdvances
    /\ LET r == Advance(io_sequencer)
       IN  io_sequencer' =
               [r.s EXCEPT !.advances = @ + 1,
                           !.last = [op |-> "next", value |-> r.value]]
    /\ UNCHANGED SeqFrame

SeqGetCurrent ==
    /\ io_sequencer' =
           [io_sequencer EXCEPT !.last =
               [op |-> "get_current", value |-> get_current(io_sequencer)]]
    /\ UNCHANGED SeqFrame

SeqIncrementSample ==
    /\ io_sequencer.samples_at_current <= MaxPerStep
    /\ io_sequencer' =
           [io_sequencer EXCEPT
               !.samples_at_current = IF io_sequencer.enabled THEN @ + 1 ELSE @,
               !.last = [op |-> "increment_sample", value |-> <<>>]]
    /\ UNCHANGED SeqFrame

SeqIsComplete ==
    /\ io_sequencer' =
           [io_sequencer EXCEPT !.last =
               [op |-> "is_complete",
                value |-> <<is_complete(io_sequencer)>>]]
    /\ UNCHANGED SeqFrame

InitSeq ==
    /\ Q = QueueInit
    /\ asked = <<>>
    /\ sock = "connected"
    /\ wire = <<>>
    /\ nwritten = 0
    /\ devOut = <<>>
    /\ inbound = <<>>
    /\ pc = "idle"
    /\ command = ""
    /\ sent = <<>>
    /\ msgBuf = <<>>
    /\ elapsed = 0
    /\ blocked = 0
    /\ nrecv = 0
    /\ seen = <<>>
    /\ ret = NoCall
    /\ surfaced = {}
    /\ api = ApiInit
    /\ call = NoApiCall
    /\ out = NoOutcome
    /\ script = NoScript
    /\ io_sequencer \in Sequencers
    /\ run = NoRun

NextSeq ==
    \/ SeqShouldChange
    \/ SeqNext
    \/ SeqGetCurrent
    \/ SeqIncrementSample
    \/ SeqIsComplete

SpecSeq == InitSeq /\ [][NextSeq]_vars

\* ------------------------------------------------------------------
\* RestrictedAPI.save_results.  A file name is a sequence of code points;
\* a file is opened relative to the working directory of the run, the
\* output location: <<>> as the directory part of an opened path.
\* ------------------------------------------------------------------
MaxPath == 5             \* code points of a filename argument

Sep == 47

CsvSuffix == <<46, 99, 115, 118>>

\* '/', '.', 'c', 's', 'v'
PathChars == {Sep, 46, 99, 115, 118}

Paths == UNION {[1..n -> PathChars] : n \in 1..MaxPath}

\* "script_results.csv": the generated name, its time stamp left out
DefaultName ==
    <<115, 99, 114, 105, 112, 116, 95, 114, 101, 115, 117, 108, 116, 115>>
        \o CsvSuffix

\* p.rfind('/') + 1
LastSep(p) ==
    LET S == {i \in 1..Len(p) : p[i] = Sep}
    IN  IF S = {} THEN 0 ELSE CHOOSE i \in S : \A j \in S : j <= i

\* os.path.basename(p)
Basename(p) == SubSeq(p, LastSep(p) + 1, Len(p))

\* str.endswith
EndsWith(p, suffix) ==
    /\ Len(p) >= Len(suffix)
    /\ SubSeq(p, Len(p) - Len(suffix) + 1, Len(p)) = suffix

\* save_results without the basename() call
SafeNameKeepsPath(filename) ==
    IF EndsWith(filename, CsvSuffix) THEN filename ELSE filename \o CsvSuffix

\* the name save_results opens
SafeName(filename) ==
    LET b == Basename(filename)
    IN  IF EndsWith(b, CsvSuffix) THEN b ELSE b \o CsvSuffix

\* open(path, 'w'): the directory part and the name of the file
Opened(path) ==
    [dir |-> SubSeq(path, 1, LastSep(path)), name |-> Basename(path)]

ApiSaveResults ==
    /\ pc = "idle"
    /\ call.op = "none"
    /\ out.outcome = "none"
    /\ \E filename \in Paths \cup {<<>>}, opens \in BOOLEAN :
        LET name == SafeName(IF filename = <<>> THEN DefaultName ELSE filename)
            c == [Entered("save_results", 0, "") EXCEPT
                      !.arg = filename, !.opened = <<Opened(name)>>]
        IN  out' = IF opens
                   THEN [outcome |-> "returned", err |-> "",
                         result |-> <<name>>, call |-> c]
                   ELSE [outcome |-> "raised", err |-> "OSError",
                         result |-> <<>>, call |-> c]
    /\ UNCHANGED <<Transport, api, call>>
    /\ UNCHANGED runVars

NextSave ==
    \/ ApiSaveResults

SpecSave == InitApi /\ [][NextSave]_vars

\* ------------------------------------------------------------------
\* apply_config once conn.connect() has returned: the configuration
\* sections, the [Script] section taken as one step, the [Run] section with
\* its sampling loop, and the 'finally' that closes the connection.  A
\* conn.send_query() of apply_config is one step here, the whole round trip:
\* it returns (the batch is cleared) or it raises, in sock.send() or in
\* _receive_response.  settings_dump is off and the file writes succeed.
\* ------------------------------------------------------------------
MaxRun == 5              \* largest 'samples' of a [Run] section

\* the ways a conn.send_query() on the batch q can end
FlushOutcomes(q) ==
    IF ReadsReply(q) THEN {"returned", "send", "recv"} ELSE {"returned", "send"}

\* conn.send_query() on the batch q, ending in o
RoundTrip(q, o) ==
    /\ CASE o = "returned" ->
              /\ Q' = QClear(q)
              /\ asked' = <<>>
              /\ nwritten' = nwritten + 1
              /\ sock' = sock
              /\ IF ReadsReply(q)
                 THEN \E text \in {"1", Sentinel} :
                          ret' = Returned("send_query", PyStr(text))
                 ELSE ret' = Returned("send_query", PyTrue)
         [] o = "send" ->
              /\ Q' = q
              /\ asked' = IF q = Q THEN asked ELSE Append(asked, q.wait)
              /\ nwritten' = nwritten
              /\ IF RefusesSend(sock)
                 THEN /\ sock' = sock
                      /\ ret' = Raised("send_query", NotConnectedError, "")
                 ELSE \E e \in SendOutcomes(sock) \ {"ok"} :
                          /\ sock' = SockAfterSend(sock, e)
                          /\ ret' = SendError("send_query", e)
         [] OTHER ->
              /\ Q' = q
              /\ asked' = IF q = Q THEN asked ELSE Append(asked, q.wait)
              /\ nwritten' = nwritten + 1
              /\ sock' = sock
              /\ ret' = Raised("send_query", RecvError("send_query", "timed out"),
                               "timed out")
    /\ UNCHANGED <<wire, devOut, inbound, pc, command, sent, msgBuf, elapsed,
                   blocked, nrecv, seen, surfaced>>

\* an exception that skips the 'finally' of apply_config
UnwindsPastFinally(r, err) ==
    [r EXCEPT !.pc = "done", !.err = err, !.at_failure = <<r.written>>]

\* an exception raised inside the 'try' of apply_config
Unwinds(r, err) ==
    [r EXCEPT !.pc = "finally", !.err = err, !.at_failure = <<r.written>>]

\* a step of apply_config that touches neither the batch nor the connection
RunLocal ==
    UNCHANGED <<Q, asked, sock, wire, nwritten, devOut, inbound, pc, command,
                sent, msgBuf, elapsed, blocked, nrecv, seen, ret, surfaced>>

\* conn.send_query() on the batch q: then is the run after a return
RunFlush(q, then) ==
    \E o \in FlushOutcomes(q) :
        /\ RoundTrip(q, o)
        /\ run' = IF o = "returned"
                  THEN [then EXCEPT !.written = @ + 1,
                                    !.bare = @ \/ QSize(q) = 0]
                  ELSE Unwinds([run EXCEPT !.written =
                                    @ + IF o = "recv" THEN 1 ELSE 0,
                                    !.bare = @ \/ QSize(q) = 0],
                               ret'.err)

increment_sample(s) ==
    IF s.enabled THEN [s EXCEPT !.samples_at_current = @ + 1] ELSE s

\* the [System], [Display], ... sections: a value fails its validation, or
\* the staged settings are flushed; the conn.send_query() after the
\* [Display] section runs whether or not a setting was staged
RunConfigure ==
    /\ run.pc = "connected"
    /\ \/ /\ run' = Unwinds(run, "ValueError")
          /\ RunLocal
       \/ \E staged \in BOOLEAN :
              RunFlush(IF staged THEN QPut(Q, SetText(ControlStub, "10V"), FALSE)
                       ELSE Q,
                       [run EXCEPT !.pc = "section"])
    /\ UNCHANGED <<api, call, out, script, io_sequencer>>

\* the [Script] section runs a script and returns, or there is no [Run]
\* section
RunReturns ==
    /\ run.pc = "section"
    /\ run' = [run EXCEPT !.pc = "finally"]
    /\ RunLocal
    /\ UNCHANGED <<api, call, out, script, io_sequencer>>

\* the initial IO state of the [Run] section
RunInitIo ==
    /\ run.pc = "section"
    /\ LET io == get_current(io_sequencer)
       IN  IF io_sequencer.enabled /\ io # <<>>
           THEN RunFlush(QPut(Q, SetText(IoStub, ToString(io[1])), FALSE),
                         [run EXCEPT !.pc = "header", !.last_io = io])
           ELSE /\ run' = [run EXCEPT !.pc = "header"]
                /\ RunLocal
    /\ UNCHANGED <<api, call, out, script, io_sequencer>>

\* open(output_file), the header, system.wait.get() and its flush
RunHeader ==
    /\ run.pc = "header"
    /\ \/ /\ run' = Unwinds(run, "OSError")
          /\ RunLocal
       \/ RunFlush(QPut(Q, SettingText(SettingStub), FALSE),
                   [run EXCEPT !.pc = "loop"])
    /\ UNCHANGED <<api, call, out, script, io_sequencer>>

\* 'while collected_samples < samples' is false
RunLoopEnds ==
    /\ run.pc = "loop"
    /\ run.collected >= run.samples
    /\ run' = [run EXCEPT !.pc = "finally"]
    /\ RunLocal
    /\ UNCHANGED <<api, call, out, script, io_sequencer>>

\* the head of one turn of the loop: 'Check if IO needs to change'
RunCheckIo ==
    /\ run.pc = "loop"
    /\ run.collected < run.samples
    /\ UNCHANGED <<api, call, out, script>>
    /\ IF io_sequencer.enabled /\ should_change(io_sequencer)
       THEN LET r == Advance(io_sequencer)
                s == [r.s EXCEPT !.advances = @ + 1,
                                 !.last = [op |-> "next", value |-> r.value]]
            IN  /\ io_sequencer' = s
                /\ IF r.value # <<>>
                   THEN RunFlush(QPut(Q, SetText(IoStub, ToString(r.value[1])),
                                      FALSE),
                                 [run EXCEPT !.pc = "pace",
                                             !.last_io = r.value])
                   ELSE /\ run' = [run EXCEPT
                                   !.signalled = TRUE,
                                   !.pc = IF is_complete(s) /\ ~s.loop
                                          THEN "finally" ELSE "pace"]
                        /\ RunLocal
       ELSE /\ run' = [run EXCEPT !.pc = "pace"]
            /\ RunLocal
            /\ UNCHANGED io_sequencer

\* the sample is due: measure.read.get(), the flush, the line, the counters
RunSample ==
    /\ run.pc = "pace"
    /\ RunFlush(QPut(Q, QueryText(QueryStub, "None"), TRUE),
                [run EXCEPT !.pc = "loop", !.collected = @ + 1,
                            !.taken = Append(@,
                                [io |-> run.last_io,
                                 active |-> io_sequencer.enabled,
                                 signalled |-> run.signalled])])
    /\ io_sequencer' = IF run'.pc = "loop"
                       THEN increment_sample(io_sequencer) ELSE io_sequencer
    /\ UNCHANGED <<api, call, out, script>>

\* the sample is not due yet: sleep(0.005)
RunWait ==
    /\ run.pc = "pace"
    /\ run.collected > 0
    /\ run' = [run EXCEPT !.pc = "loop"]
    /\ RunLocal
    /\ UNCHANGED <<api, call, out, script, io_sequencer>>

\* finally: conn.close()
RunTeardown ==
    /\ run.pc = "finally"
    /\ run' = [run EXCEPT !.pc = "done"]
    /\ IF sock # "None"
       THEN sock' = "None" /\ FreshLink
       ELSE UNCHANGED <<sock, wire, nwritten, devOut, inbound>>
    /\ ret' = Returned("close", PyNone)
    /\ UNCHANGED <<Q, asked, pc, command, sent, msgBuf, elapsed, blocked,
                   nrecv, seen, surfaced>>
    /\ UNCHANGED <<api, call, out, script, io_sequencer>>

InitRun ==
    /\ Q = QueueInit
    /\ asked = <<>>
    /\ sock = "connected"
    /\ wire = <<>>
    /\ nwritten = 0
    /\ devOut = <<>>
    /\ inbound = <<>>
    /\ pc = "idle"
    /\ command = ""
    /\ sent = <<>>
    /\ msgBuf = <<>>
    /\ elapsed = 0
    /\ blocked = 0
    /\ nrecv = 0
    /\ seen = <<>>
    /\ ret = NoCall
    /\ surfaced = {}
    /\ api = ApiInit
    /\ call = NoApiCall
    /\ out = NoOutcome
    /\ script = NoScript
    /\ io_sequencer \in Sequencers
    /\ \E n \in 0..MaxRun :
           run = [NoRun EXCEPT !.pc = "connected", !.samples = n]

NextRun ==
    \/ RunConfigure
    \/ RunReturns
    \/ RunInitIo
    \/ RunHeader
    \/ RunLoopEnds
    \/ RunCheckIo
    \/ RunSample
    \/ RunWait
    \/ RunTeardown

SpecRun == InitRun /\ [][NextRun]_vars

\* ------------------------------------------------------------------
\* Properties
\* ------------------------------------------------------------------
FlushReturned == ret.op = "send_query" /\ ret.outcome = "returned"

FlushRaised == ret.op = "send_query" /\ ret.outcome = "raised"

\* C1: a flush that returns has written the batch text followed by CRLF
\* exactly once, has read from the socket if and only if the batch expected
\* a reply, has returned text in that case and True otherwise, and leaves
\* the batch {items empty, expectsReply true}.
C1_FlushRoundTrip ==
    FlushReturned =>
        /\ ret.sent = <<QGet(ret.batch) \o "\r\n">>
        /\ (ret.nrecv > 0) <=> QWait(ret.batch)
        /\ QWait(ret.batch) => ret.value.type = "str"
        /\ ~QWait(ret.batch) => ret.value = PyTrue
        /\ Q = [wait |-> TRUE, items |-> <<>>]

\* a flush of a batch of two fragments has returned the line it has read
C1_Witness_Reply ==
    /\ FlushReturned
    /\ ret.cause = "line"
    /\ ret.value.type = "str"
    /\ Len(ret.batch.items) = 2
    /\ Q = QueueInit

\* C2: on a batch that holds at least one fragment, wait() is the logical OR
\* of the wait arguments of the puts since the last clear (so a later
\* put(fragment, False) never lowers it).
C2_WaitIsOrOfPuts ==
    /\ Len(asked) = Len(Q.items)
    /\ Len(Q.items) > 0 => (QWait(Q) <=> \E i \in 1..Len(asked) : asked[i])

\* a put that asked for a reply was followed by one that did not
C2_Witness_LaterFalse ==
    /\ Len(asked) = 2
    /\ asked[1]
    /\ ~asked[2]
    /\ QWait(Q)

\* C3: a step in which a flush ends by raising leaves the batch as it was,
\* and the batch loses fragments only in a step in which a flush returns.
C3_FailedFlushKeepsBatch ==
    [][/\ (ret' # ret /\ ret'.op = "send_query" /\ ret'.outcome = "raised")
            => Q' = Q
       /\ Len(Q'.items) < Len(Q.items)
            => (ret'.op = "send_query" /\ ret'.outcome = "returned")]_vars

\* the read of a flush of a non-empty batch has raised, after the write
C3_Witness_ReadRaised ==
    /\ FlushRaised
    /\ ret.cause = "timed out"
    /\ Len(ret.sent) = 1
    /\ Len(Q.items) = 2

\* the bytes of raw before its first LF, and those after it
RECURSIVE BeforeLF(_)
BeforeLF(raw) ==
    IF Len(raw) = 0 \/ raw[1].b = LF THEN <<>>
    ELSE <<raw[1]>> \o BeforeLF(Tail(raw))

AfterLF(raw) == SubSeq(raw, Len(BeforeLF(raw)) + 2, Len(raw))

RemoveCR(raw) == SelectSeq(raw, LAMBDA x : x.b # CR)

IsPrefix(a, b) == Len(a) <= Len(b) /\ SubSeq(b, 1, Len(a)) = a

ReceiveReturnedLine ==
    /\ ret.op \in {"_receive_response", "send_query", "send_command"}
    /\ ret.outcome = "returned"
    /\ ret.cause = "line"

\* C4: whatever the stream and the way it is cut into chunks, the value
\* returned by receive is the text of the bytes before the first LF with
\* every CR removed.
C4_LineIsBytesBeforeLF ==
    ReceiveReturnedLine =>
        ret.value = PyStr(Decode(RemoveCR(BeforeLF(ret.raw))))

\* C5: the bytes that came after the first LF in the same chunk are not in
\* the returned response and are still pending for the next receive call.
C5_RestStaysPending ==
    ReceiveReturnedLine =>
        /\ ret.size <= Len(BeforeLF(ret.raw))
        /\ IsPrefix(AfterLF(ret.raw), inbound)

\* C6: at most one flush is outstanding, and a line returned by a flush is
\* made of bytes the instrument emitted in answer to the line that this
\* flush wrote.
C6_ReplyBelongsToFlush ==
    /\ Len(sent) <= 1
    /\ (FlushReturned /\ ret.cause = "line") => Reqs(ret.raw) \subseteq {nwritten}

ResponseTimedOut ==
    /\ ret.outcome \in {"returned", "raised"}
    /\ ret.cause \in {"sentinel", "timed out"}

\* C7: a receive that ends in a response timeout ends within the configured
\* timeout plus the margin, counted from the start of the call.
C7_TimeoutWithinMargin ==
    ResponseTimedOut => ret.took <= Timeout + Margin

\* C8: the response timeouts of the flushes all surface the same way,
\* as the sentinel or as a raised failure.
C8_TimeoutSurfacesOneWay == Cardinality(surfaced) <= 1

\* C9: a receive that ends with more buffered bytes than the ceiling ends
\* by raising.
C9_OversizeAlwaysRaises ==
    (ret.outcome \in {"returned", "raised"} /\ ret.size > MAX_RESPONSE_SIZE)
        => ret.outcome = "raised"

\* C10: a send_query or send_command started while the client is not
\* connected raises the not-connected error and writes nothing, and close
\* never raises.
C10_IoRequiresConnected ==
    [][/\ (/\ pc = "idle"
           /\ ret' # ret
           /\ ret'.op \in {"send_query", "send_command"}
           /\ sock # "connected")
            => (/\ ret'.outcome = "raised"
                /\ ret'.err = NotConnectedError
                /\ nwritten' = nwritten
                /\ wire' = wire)
       /\ ret'.op = "close" => ret'.outcome = "returned"]_vars

\* ------------------------------------------------------------------
\* Properties of the capability API
\* ------------------------------------------------------------------
CallEnded == out.outcome \in {"returned", "raised"}

\* the argument of the call is outside what the capability API allows
InvalidArgs(c) ==
    CASE c.op = "set_io" -> c.value \notin 0..2047
      [] c.op = "measure" -> c.value \notin 1..MAX_SAMPLES
      [] c.op = "set_range" -> Upper(c.name) \notin valid_ranges
      [] c.op = "set_speed" -> Upper(c.name) \notin valid_speeds
      [] OTHER -> FALSE

\* C11: a call of set_io, measure, set_range or set_speed with an invalid
\* argument ends by raising ValueError with nothing staged and nothing
\* written: the batch, the socket and the lines written are as at entry.
C11_InvalidRaisesBeforeIo ==
    (CallEnded /\ InvalidArgs(out.call)) =>
        /\ out.outcome = "raised"
        /\ out.err = "ValueError"
        /\ out.call.flushes = <<>>
        /\ Q = out.call.before.Q
        /\ sock = out.call.before.sock
        /\ nwritten = out.call.before.nwritten
        /\ wire = out.call.before.wire

\* set_io(2048) was rejected on a connection that has carried a line
C11_Witness_RejectedAfterWrite ==
    /\ out.outcome = "raised"
    /\ out.call.op = "set_io"
    /\ out.call.value = 2048
    /\ nwritten = 1
    /\ sock = "connected"

MeasureReturned == out.outcome = "returned" /\ out.call.op = "measure"

\* float() fails on the reply, or on one of its comma separated fields
Unparsable(t) ==
    \E i \in 1..Len(Split(t)) : ~FloatOk(Trim(Split(t)[i]))

Last(seq) == seq[Len(seq)]

\* C12: measure(count) that returns has made count flushes, each a query
\* round trip ending in ':READ?' (and nothing else when the batch was empty
\* at entry), and returns count entries in the order of the replies; entry i
\* is None exactly when reply i is unparsable and is the number read
\* otherwise; one warning is printed per unparsable reply; the entries that
\* are not None are appended in order to api.results.
C12_MeasureOnePerSample ==
    MeasureReturned =>
        LET c == out.call
            n == c.value
        IN  /\ Len(c.flushes) = n
            /\ Len(c.replies) = n
            /\ \A i \in 1..n : Last(c.flushes[i]) = ":READ?"
            /\ c.before.Q.items = <<>> =>
                   \A i \in 1..n : c.flushes[i] = <<":READ?">>
            /\ Len(out.result) = n
            /\ \A i \in 1..n :
                   /\ out.result[i] = <<>> <=> Unparsable(c.replies[i])
                   /\ out.result[i] # <<>> =>
                          out.result[i] = <<FloatOf(Trim(Split(c.replies[i])[1]))>>
            /\ c.warnings = Cardinality({i \in 1..n : out.result[i] = <<>>})
            /\ api.results = c.before.results \o NotNone(out.result)

\* measure(2) has read "1" and then "A": [1, None], one warning, one value
C12_Witness_NumberThenText ==
    /\ MeasureReturned
    /\ out.call.value = 2
    /\ out.call.replies[2] = <<65>>
    /\ out.result = <<(<<1>>), (<<>>)>>
    /\ out.call.warnings = 1
    /\ api.results = <<1>>

\* C13: the sample of a compound reply whose first field is a number is
\* that number, whatever the other fields hold.
C13_FirstFieldIsSample ==
    MeasureReturned =>
        \A i \in 1..out.call.value :
            LET first == Trim(Split(out.call.replies[i])[1])
            IN  (HasComma(out.call.replies[i]) /\ FloatOk(first))
                    => out.result[i] = <<FloatOf(first)>>

\* ------------------------------------------------------------------
\* Properties of a script invocation
\* ------------------------------------------------------------------
Exited == script.exit # "none"

\* C14: after the body, execute_script_with_timeout calls 'sequence' if the
\* script defines it, otherwise 'main' if the script defines it, and no
\* second entry point; with neither defined it prints a diagnostic and,
\* unless the deadline expires, returns api.results without raising.
C14_EntryPointChoice ==
    /\ Len(script.called) <= 1
    /\ ~script.looked => script.called = <<>>
    /\ script.looked =>
           script.called = IF script.sequence THEN <<"sequence">>
                           ELSE IF script.main THEN <<"main">>
                           ELSE <<>>
    /\ (script.looked /\ ~script.sequence /\ ~script.main) =>
           /\ "no entry point" \in script.printed
           /\ script.result = "api.results"
           /\ (Exited /\ ~script.expired) => script.exit = "returned"

\* a script that defines both entry points has had 'sequence' called, once
C14_Witness_BothDefined ==
    /\ Exited
    /\ script.sequence
    /\ script.main
    /\ script.called = <<"sequence">>
    /\ script.exit = "returned"

\* C15: an invocation in which the deadline expired ends by raising
\* TimeoutError, and an invocation in which it did not expire does not end
\* by raising TimeoutError.
C15_ExpiryIsTimeoutFailure ==
    Exited =>
        /\ script.expired =>
               (script.exit = "raised" /\ ErrorClass(script.err) = "TimeoutError")
        /\ (~script.expired /\ script.exit = "raised") =>
               ErrorClass(script.err) # "TimeoutError"

\* C16: when execute_script_with_timeout has returned or raised, no alarm
\* is armed and the previous SIGALRM handler is installed again.
C16_DeadlineDisarmedOnExit ==
    Exited => (~script.alarm /\ script.handler = "previous")

\* C17: a script failure does not leave apply_config as an exception, and
\* from the failure on api.results holds the values it held at the failure.
C17_FailureStaysInHost ==
    /\ script.host # "raised"
    /\ script.failed => api.results = script.kept
    /\ (script.pc = "host_done" /\ script.failed) => script.host = "returned"

\* the script failed after a measurement had been accumulated, and
\* apply_config has returned
C17_Witness_FailedAfterSample ==
    /\ script.pc = "host_done"
    /\ script.failed
    /\ script.exit = "raised"
    /\ script.kept = <<1>>
    /\ api.results = <<1>>
    /\ script.host = "returned"

\* C18: in restricted and trusted mode no import, filesystem or network
\* primitive and no raw connection object is among the objects the script
\* can get hold of, directly or through attributes of api.
C18_NoHostCapabilityReachable ==
    script.mode \in {"restricted", "trusted"} =>
        script.reach \cap Forbidden = {}

\* a sequencer that does not loop, built from an enabled configuration
OnePass == ~io_sequencer.loop /\ io_sequencer.patterns # <<>>

\* C19: a non-looping sequencer with N patterns reports is_complete() after
\* exactly N calls of next() and not before, and from then on next() and
\* get_current() return None.
C19_CompleteAfterNAdvances ==
    OnePass =>
        LET N == Len(io_sequencer.patterns)
            last == io_sequencer.last
        IN  /\ (last.op = "is_complete" /\ io_sequencer.advances = N)
                   => last.value = <<TRUE>>
            /\ (last.op = "is_complete" /\ io_sequencer.advances < N)
                   => last.value = <<FALSE>>
            /\ (last.op \in {"next", "get_current"} /\ io_sequencer.advances >= N)
                   => last.value = <<>>

\* C20: once a non-looping sequencer has made one full pass it stays
\* disabled: whatever is called afterwards, enabled is false, should_change()
\* is false and next() and get_current() return None.
C20_DisabledAfterOnePass ==
    (OnePass /\ io_sequencer.advances >= Len(io_sequencer.patterns)) =>
        /\ ~io_sequencer.enabled
        /\ ~should_change(io_sequencer)
        /\ get_current(io_sequencer) = <<>>
        /\ Advance(io_sequencer).value = <<>>
        /\ io_sequencer.last.op \in {"next", "get_current"}
               => io_sequencer.last.value = <<>>
        /\ io_sequencer.last.op = "should_change"
               => io_sequencer.last.value = <<FALSE>>

C20_Witness_CalledAfterPass ==
    /\ OnePass
    /\ Len(io_sequencer.patterns) = MaxEnd + 1
    /\ io_sequencer.advances > Len(io_sequencer.patterns)
    /\ io_sequencer.last.op = "should_change"

\* a sequencer that loops, built from an enabled configuration
Looping == io_sequencer.loop /\ io_sequencer.patterns # <<>>

\* C21: a looping sequencer never becomes disabled and next() never returns
\* None; the Nth, 2Nth, ... call of next() wraps to index 0 and returns
\* patterns[0], every other call returns the pattern at the next index.
C21_LoopWrapsAndStaysActive ==
    Looping =>
        LET N == Len(io_sequencer.patterns)
            last == io_sequencer.last
        IN  /\ io_sequencer.enabled
            /\ io_sequencer.current_index = io_sequencer.advances % N
            /\ last.op = "next" =>
                   /\ last.value # <<>>
                   /\ last.value =
                          <<io_sequencer.patterns[(io_sequencer.advances % N) + 1]>>
                   /\ io_sequencer.advances % N = 0 =>
                          /\ io_sequencer.current_index = 0
                          /\ last.value = <<io_sequencer.patterns[1]>>

C21_Witness_WrappedAfterLast ==
    /\ Looping
    /\ Len(io_sequencer.patterns) = MaxEnd + 1
    /\ io_sequencer.advances = Len(io_sequencer.patterns)
    /\ io_sequencer.last.op = "next"

\* C22: in every state of a sequencer with patterns, 0 <= current_index <
\* len(patterns) and every pattern is an integer in 0..2047.
C22_IndexInRange ==
    io_sequencer.patterns # <<>> =>
        /\ io_sequencer.current_index \in 0..(Len(io_sequencer.patterns) - 1)
        /\ \A i \in 1..Len(io_sequencer.patterns) :
               io_sequencer.patterns[i] \in 0..IO_MAX

\* C23: a sequencer built from an enabled section starts active at index 0
\* with the first value when the section yields a value, and starts disabled
\* with no current value when it yields none.
C23_StartsActiveIffValues ==
    (io_sequencer.yielded # <<>> /\ io_sequencer.advances = 0) =>
        IF io_sequencer.yielded[1] # <<>>
            THEN /\ io_sequencer.enabled
                 /\ io_sequencer.current_index = 0
                 /\ get_current(io_sequencer) = <<io_sequencer.yielded[1][1]>>
            ELSE /\ ~io_sequencer.enabled
                 /\ get_current(io_sequencer) = <<>>

\* save_results(filename) with a filename has returned
Saved ==
    /\ out.outcome = "returned"
    /\ out.call.op = "save_results"
    /\ out.call.arg # <<>>

\* the last path components of p: what follows its last separator
LastComponents(p) ==
    {SubSeq(p, k + 1, Len(p)) : k \in {j \in 0..Len(p) :
        /\ j = 0 \/ p[j] = Sep
        /\ \A i \in (j + 1)..Len(p) : p[i] # Sep}}

WithCsv(n) == IF EndsWith(n, CsvSuffix) THEN n ELSE n \o CsvSuffix

\* C28 as stated: save_results(filename) opens exactly one file, in the
\* output location, named by the last path component of the argument, and
\* returns that name.
C28_NamedByLastComponent ==
    Saved =>
        /\ Len(out.call.opened) = 1
        /\ out.call.opened[1].dir = <<>>
        /\ out.call.opened[1].name \in LastComponents(out.call.arg)
        /\ out.result = <<out.call.opened[1].name>>

\* C28 amended: save_results(filename) opens exactly one file, in the
\* output location, named by the last path component of the argument with
\* '.csv' appended unless the component already ends in '.csv', and returns
\* that name; no directory component of the argument has an influence.
C28_WritesInOutputLocation ==
    Saved =>
        /\ Len(out.call.opened) = 1
        /\ out.call.opened[1].dir = <<>>
        /\ out.call.opened[1].name
               \in {WithCsv(n) : n \in LastComponents(out.call.arg)}
        /\ out.result = <<out.call.opened[1].name>>

\* save_results("../c") has returned
C28_Witness_ParentDirectory ==
    /\ Saved
    /\ out.call.arg = <<46, 46, Sep, 99>>

\* the calls that stage a fragment
DescriptorOps == {"ControlQuery.get", "Control.set", "ControlSetting.get"}

\* C26: after every put the text of get() is the text before, ';' and the
\* new fragment (the fragment alone on an empty batch), so get() is the
\* fragments joined by ';' in put order; a call of get() returns that text
\* and changes neither the fragments nor the wait flag.
C26_GetJoinsAndKeepsBatch ==
    [][/\ (pc = "idle" /\ ret'.op \in DescriptorOps) =>
              QGet(Q') = IF Q.items = <<>> THEN ret'.value.val
                         ELSE QGet(Q) \o ";" \o ret'.value.val
       /\ (pc = "idle" /\ ret'.op = "MessageQueue.get") =>
              /\ Q' = Q
              /\ ret'.value = PyStr(QGet(Q))
              /\ Len(Q.items) = 2 =>
                     ret'.value.val = Q.items[1] \o ";" \o Q.items[2]]_vars

\* get() called twice in a row on a batch of two fragments
C26_Witness_GetOnTwo ==
    /\ ret.op = "MessageQueue.get"
    /\ Len(Q.items) = 2
    /\ Q.items[1] # Q.items[2]
    /\ ~Q.wait

\* C27: a descriptor call appends exactly one fragment of its form ("stub?"
\* or "stub? arg" with wait, "stub value" without, "stub" without), returns
\* the fragment and leaves the connection and everything on it untouched.
C27_DescriptorOnlyStages ==
    [][(pc = "idle" /\ ret'.op \in DescriptorOps) =>
          /\ Len(Q'.items) = Len(Q.items) + 1
          /\ SubSeq(Q'.items, 1, Len(Q.items)) = Q.items
          /\ ret'.value = PyStr(Q'.items[Len(Q'.items)])
          /\ ret'.outcome = "returned"
          /\ ret'.op = "ControlQuery.get" =>
                 /\ ret'.value.val \in {":READ?", ":READ? TEMP"}
                 /\ asked' = Append(asked, TRUE)
          /\ ret'.op = "Control.set" =>
                 /\ ret'.value.val = ":SENSe:VOLTage:DC:RANGe 10V"
                 /\ asked' = Append(asked, FALSE)
          /\ ret'.op = "ControlSetting.get" =>
                 /\ ret'.value.val = "*WAI"
                 /\ asked' = Append(asked, FALSE)
          /\ UNCHANGED <<sock, wire, nwritten, devOut, inbound, pc, sent>>]_vars

\* a fragment staged on a connection that has already carried a line
C27_Witness_StagedAfterWrite ==
    /\ ret.op = "ControlQuery.get"
    /\ ret.value.val = ":READ? TEMP"
    /\ Len(Q.items) = 2
    /\ nwritten > 0
    /\ sock = "connected"

\* C24: once next() of a non-looping sequence has returned None the loop
\* is left for the teardown, and no sample is read after that signal.
C24_NoSampleAfterEndOfSequence ==
    /\ \A k \in 1..Len(run.taken) : ~run.taken[k].signalled
    /\ (run.signalled /\ ~io_sequencer.loop) => run.pc \in {"finally", "done"}

\* C25: the run ends only through the teardown, which leaves the connection
\* closed; after an exception the loop takes no further step and no line is
\* written.
C25_EveryEndTearsDown ==
    /\ run.pc = "done" => sock = "None"
    /\ run.at_failure # <<>> =>
           /\ run.pc \in {"finally", "done"}
           /\ run.written = run.at_failure[1]

\* a flush of the sampling loop raised after a sample had been read
C25_Witness_FailedInLoop ==
    /\ run.pc = "done"
    /\ run.at_failure # <<>>
    /\ Len(run.taken) >= 1
    /\ ret.op = "close"

\* C30: every sample read while the sequence is active is read with the
\* last output value sent being patterns[(k div samplesPerStep) mod N], k
\* the 0-based number of the sample.
C30_OutputFollowsSamples ==
    \A k \in 1..Len(run.taken) :
        run.taken[k].active =>
            run.taken[k].io =
                <<io_sequencer.patterns[
                    (((k - 1) \div io_sequencer.samples_per_step)
                        % Len(io_sequencer.patterns)) + 1]>>

\* a looping sequence of two patterns, two samples a step, has wrapped
C30_Witness_WrappedInRun ==
    /\ io_sequencer.loop
    /\ Len(io_sequencer.patterns) = 2
    /\ io_sequencer.samples_per_step = 2
    /\ Len(run.taken) = MaxRun
    /\ run.taken[MaxRun].active

\* C29: once the deadline has cut a flush short, between the write of its
\* batch and the end of its receive, no further line is written on that
\* connection, and the batch and the reply of that flush are not carried
\* into a later round trip.
C29_NoWriteAfterAbortedFlush ==
    script.aborted # <<>> =>
        /\ nwritten = script.aborted[1]
        /\ pc = "idle"

\* ------------------------------------------------------------------
\* C31: a measure call that fails (a flush raises, or the deadline fires
\* after samples were read) leaves api.results exactly as it was when the
\* call was entered: no sample read by the failed call is in it
\* ------------------------------------------------------------------
C31_FailedMeasureKeepsResults ==
    /\ call.op = "measure" => api.results = call.before.results
    /\ (out.outcome = "raised" /\ out.call.op = "measure")
            => api.results = out.call.before.results

\* ------------------------------------------------------------------
\* C32: every flush of apply_config is on a batch that holds a fragment:
\* send_query is never called on an empty batch, so no bare terminator is
\* sent and no reply is awaited for one
\* ------------------------------------------------------------------
C32_NoFlushOfEmptyBatch == ~run.bare
====
